---------------------------- MODULE Spec2Model ----------------------------
(***************************************************************************)
(* Labour attendance app (src/src/App.jsx): the roster store, the          *)
(* persistence boundary, the date-range arithmetic, the statistics engine  *)
(* and the report layout.                                                  *)
(*                                                                         *)
(* Strings the code inspects character by character (worker names) are     *)
(* sequences of one-character strings.  A date string "YYYY-MM-DD" is the  *)
(* triple <<y, m, d>> of its three numeric fields; a string that is not of *)
(* that shape is Garbage.  A JavaScript Date is its time value in minutes  *)
(* since 1970-01-01T00:00Z (or NaN); the host's time zone and the          *)
(* engine's leniency on the day-of-month field are the environment.        *)
(***************************************************************************)
EXTENDS Integers, Sequences, FiniteSets, TLC

VARIABLES
    tz,           \* host time zone: [std, gapAt, dst], see Zones
    lenient,      \* Date.parse accepts a day field 29..31 past the month's end
    storage,      \* localStorage[STORAGE_KEY]: a raw persisted value
    stored0,      \* the value storage held when the app was opened
    pc,           \* "unmounted" | "mounted"
    labours,      \* React state: the roster, a sequence of workers
    prevLabours,  \* the array object that was `labours` when the last handler ran
    date,         \* React state: the selected date string
    newName,      \* React state: the text of the name input
    last,         \* the last handler call: its name, arguments and outcome
    before,       \* the content of `labours` when that call began
    rStart,       \* start string given to dateRangeDays/computeStats/generatePDF
    rEnd,         \* end string given to the same
    dr,           \* result of the last dateRangeDays call
    res,          \* result of the last computeStats call
    doc,          \* the document produced by the last generatePDF call
    steps,        \* number of handler invocations so far
    edited        \* history: for each row of `labours`, the dates on which
                  \* togglePresent or changeTime ran on it since it was
                  \* loaded or added

vars == <<tz, lenient, storage, stored0, pc, labours, prevLabours, date, newName,
          last, before, rStart, rEnd, dr, res, doc, steps, edited>>

-----------------------------------------------------------------------------
(* Bounds of the model. *)

MaxWorkers == 2

MaxSteps == 3

MaxEntries == 2

\* longest range, in days, handed to dateRangeDays
MaxSpan == 35

\* most rows of a report: a first page holds 30 rows
MaxRows == 32

-----------------------------------------------------------------------------
(* JavaScript values. *)

NULL == [kind |-> "null"]

\* the time value of an Invalid Date (every valid time value here is >= 0)
NaN == 0 - 1

Garbage == <<0, 0, 0>>

MinPerDay == 24 * 60

-----------------------------------------------------------------------------
(* ECMAScript Date arithmetic (ECMA-262 21.4.1), in minutes. *)

IsLeap(y) == (y % 4 = 0 /\ y % 100 # 0) \/ y % 400 = 0

DaysInMonth(y, m) ==
    IF m = 2 THEN (IF IsLeap(y) THEN 29 ELSE 28)
    ELSE IF m \in {4, 6, 9, 11} THEN 30 ELSE 31

\* DayFromYear(y): the day number of 1 January of year y (y >= 1970)
DayFromYear(y) ==
    365 * (y - 1970) + ((y - 1969) \div 4) - ((y - 1901) \div 100)
        + ((y - 1601) \div 400)

\* days of a common year before the first of each month
CumDays == <<0, 31, 59, 90, 120, 151, 181, 212, 243, 273, 304, 334, 365>>

DaysBeforeMonth(y, m) == CumDays[m] + (IF m > 2 /\ IsLeap(y) THEN 1 ELSE 0)

\* MakeDay(year, month, date): date may run past the end of the month
MakeDay(y, m, d) == DayFromYear(y) + DaysBeforeMonth(y, m) + d - 1

\* the years of the model's calendar
Years == 2023 .. 2025

Days == DayFromYear(2023) .. DayFromYear(2026) - 1

\* YearFromTime, MonthFromTime and DateFromTime of every day, tabulated
YMDTable ==
    [n \in Days |->
        LET y   == CHOOSE y \in Years :
                       DayFromYear(y) <= n /\ n < DayFromYear(y + 1)
            diy == n - DayFromYear(y)
            m   == CHOOSE m \in 1 .. 12 :
                       DaysBeforeMonth(y, m) <= diy
                           /\ diy < DaysBeforeMonth(y, m + 1)
        IN  <<y, m, diy - DaysBeforeMonth(y, m) + 1>>]

YMD(n) == YMDTable[n]

YearFromDay(n) == YMD(n)[1]

MonthFromDay(n) == YMD(n)[2]

DateFromDay(n) == YMD(n)[3]

\* WeekDay: 0 is Sunday; 1970-01-01 was a Thursday
WeekDay(n) == (n + 4) % 7

Day(t) == t \div MinPerDay

TimeWithinDay(t) == t % MinPerDay

-----------------------------------------------------------------------------
(* The host time zone.  std is the standard offset from UTC in minutes;    *)
(* a zone with dst > 0 moves its clocks forward by dst minutes at local    *)
(* standard time gapAt (minutes since the epoch), so that the local times  *)
(* gapAt .. gapAt + dst - 1 do not exist.                                  *)

NoGap == [std |-> 0, gapAt |-> 0, dst |-> 0]

ZoneUTC == NoGap

ZoneKolkata == [NoGap EXCEPT !.std = 5 * 60 + 30]

ZonePhoenix == [NoGap EXCEPT !.std = -(7 * 60)]

\* Africa/Cairo: UTC+2, clocks go from 00:00 to 01:00 on Friday 2024-04-26
ZoneCairo ==
    [std |-> 2 * 60, gapAt |-> MakeDay(2024, 4, 26) * MinPerDay, dst |-> 60]

Zones == {ZoneUTC, ZoneKolkata, ZonePhoenix, ZoneCairo}

\* the UTC instant at which zone z changes its offset
TransitionUTC(z) == z.gapAt - z.std

\* offset of local time from UTC at the UTC instant t
LocalTZA(z, t) ==
    IF z.dst > 0 /\ t >= TransitionUTC(z) THEN z.std + z.dst ELSE z.std

LocalTime(z, t) == t + LocalTZA(z, t)

\* UTC(t) of ECMA-262: a local time that was skipped is read with the
\* offset in force before the transition
UTCOfLocal(z, lt) ==
    IF z.dst > 0 /\ lt >= z.gapAt + z.dst THEN lt - (z.std + z.dst)
    ELSE lt - z.std

-----------------------------------------------------------------------------
(* Date methods used by the code. *)

\* new Date(str + 'T00:00:00'): a date-time without offset is local time.
\* Engines differ on a day field past the end of the month (2024-02-30):
\* V8 takes any day 1..31 and lets MakeDay run into the next month, others
\* answer Invalid Date.
ParseLocalMidnight(z, len, str) ==
    LET y == str[1]
        m == str[2]
        d == str[3]
        dmax == IF len THEN 31 ELSE DaysInMonth(y, m)
    IN  IF y \in Years /\ m \in 1 .. 12 /\ d >= 1 /\ d <= dmax
        THEN UTCOfLocal(z, MakeDay(y, m, d) * MinPerDay)
        ELSE NaN

\* cur.getDay()
GetDay(z, t) == WeekDay(Day(LocalTime(z, t)))

\* cur.getDate()
GetDate(z, t) == DateFromDay(Day(LocalTime(z, t)))

\* cur.setDate(dt): the local year, month and time of day are kept
SetDate(z, t, dt) ==
    LET lt == LocalTime(z, t)
        n  == Day(lt)
    IN  UTCOfLocal(z, MakeDay(YearFromDay(n), MonthFromDay(n), dt) * MinPerDay
                       + TimeWithinDay(lt))

\* cur.toISOString().slice(0, 10): the UTC calendar date
ISODate(t) == YMD(Day(t))

-----------------------------------------------------------------------------
(* dateRangeDays, App.jsx:6-16 *)

\* the loop condition cur <= e
LoopCond(cur, e) == cur <= e

RECURSIVE RangeLoop(_, _, _, _, _)
\* for (cur = new Date(s); cur <= e; cur.setDate(cur.getDate() + 1)) {...}
RangeLoop(z, cur, e, total, sundays) ==
    IF LoopCond(cur, e)
    THEN RangeLoop(z, SetDate(z, cur, GetDate(z, cur) + 1), e, total + 1,
                   IF GetDay(z, cur) = 0 THEN sundays + 1 ELSE sundays)
    ELSE [total |-> total, sundays |-> sundays]

dateRangeDays(z, len, start, end) ==
    LET s == ParseLocalMidnight(z, len, start)
        e == ParseLocalMidnight(z, len, end)
    IN  IF s = NaN \/ e = NaN THEN NULL
        ELSE IF s > e THEN NULL
        ELSE LET r == RangeLoop(z, s, e, 0, 0)
             IN  [kind |-> "range", total |-> r.total, sundays |-> r.sundays,
                  workingDays |-> r.total - r.sundays]

-----------------------------------------------------------------------------
(* Strings and records of the roster. *)

WhiteSpace == {" "}

RECURSIVE TrimStart(_)
TrimStart(s) ==
    IF s # <<>> /\ Head(s) \in WhiteSpace THEN TrimStart(Tail(s)) ELSE s

RECURSIVE TrimEnd(_)
TrimEnd(s) ==
    IF s # <<>> /\ s[Len(s)] \in WhiteSpace
    THEN TrimEnd(SubSeq(s, 1, Len(s) - 1))
    ELSE s

\* mutant: trimStart() in place of trim()
TrimStartOnly(s) == TrimStart(s)

\* String.prototype.trim
Trim(s) == TrimEnd(TrimStart(s))

\* the property `time` is absent from the record object
UNDEFINED == "undefined"

OnTime == "09:00"

Unnamed == <<"U", "n", "n", "a", "m", "e", "d">>

\* {} as a record mapping
NoRecords == <<>>

\* records[d], or undefined
HasRecord(w, d) == d \in DOMAIN w.records

\* obj[key] = value on a record mapping
PutRecord(recs, d, r) ==
    [k \in DOMAIN recs \cup {d} |-> IF k = d THEN r ELSE recs[k]]

\* JavaScript indices count from 0
ValidIndex(labs, index) == index >= 0 /\ index < Len(labs)

At(labs, index) == labs[index + 1]

-----------------------------------------------------------------------------
(* Persistence, App.jsx:18-37.  A raw stored value is                      *)
(*   [kind |-> "absent"]               getItem answers null                *)
(*   [kind |-> "text"]                 a string JSON.parse rejects         *)
(*   [kind |-> "json", value |-> v]    a string JSON.parse reads as v      *)
(* and a JSON value v is [t |-> "array", items |-> <<entry, ...>>] or      *)
(* [t |-> "other"]; an entry is [t |-> "null"], [t |-> "scalar"] or        *)
(* [t |-> "object", name |-> nv, records |-> rv], with nv missing or a     *)
(* string, and rv missing, null, a scalar or a mapping.                    *)

Absent == [kind |-> "absent"]

BadText == [kind |-> "text"]

JsonArray(items) == [kind |-> "json", value |-> [t |-> "array", items |-> items]]

JsonOther == [kind |-> "json", value |-> [t |-> "other"]]

Missing == [t |-> "missing"]

Str(s) == [t |-> "str", s |-> s]

Mapping(m) == [t |-> "map", m |-> m]

Obj(nv, rv) == [t |-> "object", name |-> nv, records |-> rv]

\* l.name || 'Unnamed'
LoadName(l) ==
    IF l.t = "object" /\ l.name.t = "str" /\ l.name.s # <<>>
    THEN l.name.s
    ELSE Unnamed

\* (l.records && typeof l.records === 'object') ? l.records : {}
LoadRecords(l) ==
    IF l.t = "object" /\ l.records.t = "map" THEN l.records.m ELSE NoRecords

\* l.name throws a TypeError when l is null
EntryThrows(l) == l.t = "null"

loadFromStorage(raw) ==
    IF raw.kind = "absent" THEN <<>>
    ELSE IF raw.kind = "text" THEN <<>>
    ELSE IF raw.value.t # "array" THEN <<>>
    ELSE LET parsed == raw.value.items
         IN  IF \E i \in 1 .. Len(parsed) : EntryThrows(parsed[i])
             THEN <<>>
             ELSE [i \in 1 .. Len(parsed) |->
                      [name |-> LoadName(parsed[i]),
                       records |-> LoadRecords(parsed[i])]]

\* JSON.stringify(data), as JSON.parse reads it back
Stringify(data) ==
    JsonArray([i \in 1 .. Len(data) |->
                  Obj(Str(data[i].name), Mapping(data[i].records))])

\* localStorage.setItem(STORAGE_KEY, JSON.stringify(data))
saveToStorage(data) == Stringify(data)

-----------------------------------------------------------------------------
(* The handlers of LabourAttendanceApp, as functions of the state they     *)
(* close over.  Each answers the state it leaves: `labours` as given to    *)
(* setLabours (or as it was), and `old`, the array that was `labours`      *)
(* when the handler ran, as the handler leaves it.                         *)

Result(labs, old, how) == [labours |-> labs, old |-> old, outcome |-> how]

\* addLabour also answers the text it leaves in the name input
AddResult(labs, old, name, how) ==
    [labours |-> labs, old |-> old, outcome |-> how, newName |-> name]

\* mutant: the duplicate check is dropped
NameTakenNever(labs, name) == FALSE

\* labours.some(l => l.name === name)
NameTaken(labs, name) == \E i \in 1 .. Len(labs) : labs[i].name = name

addLabour(labs, typed) ==
    LET name == Trim(typed)
    IN  IF name = <<>> THEN AddResult(labs, labs, typed, "ignored")
        ELSE IF NameTaken(labs, name)
        THEN AddResult(labs, labs, typed, "alert")
        ELSE AddResult(Append(labs, [name |-> name, records |-> NoRecords]),
                       labs, <<>>, "ok")

\* mutant: the status is set, not flipped
FlipToPresent(status) == "Present"

\* rec.status === 'Present' ? 'Absent' : 'Present'
Flip(status) == IF status = "Present" THEN "Absent" ELSE "Present"

\* updated[index].records[date] || { status: 'Absent', time: '09:00' }
RecordOrDefault(w, d) ==
    IF HasRecord(w, d) THEN w.records[d]
    ELSE [status |-> "Absent", time |-> OnTime]

\* mutant: the new record is built without the spread of rec, its time reset
togglePresentResetsTime(labs, d, index) ==
    IF ~ValidIndex(labs, index) THEN Result(labs, labs, "threw")
    ELSE LET rec == RecordOrDefault(At(labs, index), d)
             new == [status |-> Flip(rec.status), time |-> OnTime]
         IN  Result([labs EXCEPT ![index + 1].records =
                         PutRecord(@, d, new)],
                    labs, "ok")

\* mutant: a record flipped back to Absent is deleted
togglePresentDropsAbsent(labs, d, index) ==
    IF ~ValidIndex(labs, index) THEN Result(labs, labs, "threw")
    ELSE LET rec == RecordOrDefault(At(labs, index), d)
             new == [rec EXCEPT !.status = Flip(rec.status)]
         IN  Result([labs EXCEPT ![index + 1].records =
                         IF new.status = "Absent"
                         THEN [k \in DOMAIN @ \ {d} |-> @[k]]
                         ELSE PutRecord(@, d, new)],
                    labs, "ok")

togglePresent(labs, d, index) ==
    IF ~ValidIndex(labs, index) THEN Result(labs, labs, "threw")
    ELSE LET rec == RecordOrDefault(At(labs, index), d)
             new == [rec EXCEPT !.status = Flip(rec.status)]
         IN  Result([labs EXCEPT ![index + 1].records =
                         PutRecord(@, d, new)],
                    labs, "ok")

\* mutant: setting a time also marks the worker Present
SetTimeMarksPresent(w, d, newTime) ==
    [w EXCEPT !.records =
        PutRecord(@, d, [status |-> "Present", time |-> newTime])]

\* updated[index].records[date].time = newTime
SetTime(w, d, newTime) ==
    [w EXCEPT !.records =
        PutRecord(@, d, [RecordOrDefault(w, d) EXCEPT !.time = newTime])]

\* The spread at line 68 copies the record mapping, not the record objects:
\* a record that exists is one object shared by `updated` and `labours`,
\* and the assignment at line 70 writes to it in both.
changeTime(labs, d, index, newTime) ==
    IF ~ValidIndex(labs, index) THEN Result(labs, labs, "threw")
    ELSE LET w == At(labs, index)
         IN  Result([labs EXCEPT ![index + 1] = SetTime(w, d, newTime)],
                    IF HasRecord(w, d)
                    THEN [labs EXCEPT ![index + 1] = SetTime(w, d, newTime)]
                    ELSE labs,
                    "ok")

\* mutant: the entries are shifted down over the last one, whatever the index
ExciseLast(labs, index) == SubSeq(labs, 1, Len(labs) - 1)

\* labours.filter((_, i) => i !== index)
Excise(labs, index) ==
    [i \in 1 .. Len(labs) - 1 |-> IF i < index + 1 THEN labs[i] ELSE labs[i + 1]]

\* mutant: index -1 is read as the last row
removeLabourFromEnd(labs, index, confirmed) ==
    LET i == IF index = 0 - 1 THEN Len(labs) - 1 ELSE index
    IN  IF ~ValidIndex(labs, i) THEN Result(labs, labs, "threw")
        ELSE IF ~confirmed THEN Result(labs, labs, "cancelled")
        ELSE Result(Excise(labs, i), labs, "ok")

removeLabour(labs, index, confirmed) ==
    IF ~ValidIndex(labs, index) THEN Result(labs, labs, "threw")
    ELSE IF ~confirmed THEN Result(labs, labs, "cancelled")
    ELSE Result(Excise(labs, index), labs, "ok")

-----------------------------------------------------------------------------
(* computeStats, App.jsx:80-99 *)

\* rec.time && rec.time !== '09:00'
IsLate(rec) == rec.time # UNDEFINED /\ rec.time # "" /\ rec.time # OnTime

\* the key under which the loop looks the day's record up
StatsKey(cur) == ISODate(cur)

\* cur <= new Date(end + 'T00:00:00')
StatsLoopCond(cur, e) == cur <= e

\* rec && rec.status === 'Present'
CountsPresent(lab, k) == HasRecord(lab, k) /\ lab.records[k].status = "Present"

\* if (cur.getDay() !== 0) absent++
CountsAbsent(z, cur) == GetDay(z, cur) # 0

RECURSIVE StatsLoop(_, _, _, _, _)
StatsLoop(z, lab, cur, e, acc) ==
    IF StatsLoopCond(cur, e)
    THEN LET k  == StatsKey(cur)
             nx == SetDate(z, cur, GetDate(z, cur) + 1)
         IN  IF CountsPresent(lab, k)
             THEN StatsLoop(z, lab, nx, e,
                     [acc EXCEPT !.present = @ + 1,
                                 !.late = IF IsLate(lab.records[k])
                                          THEN @ + 1 ELSE @])
             ELSE StatsLoop(z, lab, nx, e,
                     [acc EXCEPT !.absent = IF CountsAbsent(z, cur)
                                            THEN @ + 1 ELSE @])
    ELSE acc

computeStats(labs, z, len, start, end) ==
    LET range == dateRangeDays(z, len, start, end)
    IN  IF range = NULL THEN NULL
        ELSE [kind |-> "stats", dr |-> range,
              stats |->
                [i \in 1 .. Len(labs) |->
                    LET c == StatsLoop(z, labs[i],
                                       ParseLocalMidnight(z, len, start),
                                       ParseLocalMidnight(z, len, end),
                                       [present |-> 0, absent |-> 0, late |-> 0])
                    IN  [name |-> labs[i].name, present |-> c.present,
                         absent |-> c.absent, late |-> c.late,
                         workingDays |-> range.workingDays,
                         sundays |-> range.sundays]]]

-----------------------------------------------------------------------------
(* generatePDF, App.jsx:101-135.  The document is the sequence of calls    *)
(* made on the jsPDF object: text placed at (x, y) on a page, and the      *)
(* final save under a file name.                                           *)

StartY == 40

RowStep == 8

PageBottom == 280

PageTop == 20

colX == <<14, 70, 110, 140, 170, 200>>

Labels == <<"Name", "Present", "Absent", "Late Days", "Working", "Sundays">>

RECURSIVE Digits(_)
\* String(n) for an integer n >= 0: its decimal digits
Digits(n) ==
    IF n < 10 THEN <<n>> ELSE Append(Digits(n \div 10), n % 10)

Text(content, x, y, page) ==
    [op |-> "text", text |-> content, x |-> x, y |-> y, page |-> page]

\* mutant: the absent count is printed in the column of the present count
RowAbsentFirst(s, y, page) ==
    << Text(<<"name", s.name>>, colX[1], y, page),
       Text(<<"num", Digits(s.absent)>>, colX[2], y, page),
       Text(<<"num", Digits(s.present)>>, colX[3], y, page),
       Text(<<"num", Digits(s.late)>>, colX[4], y, page),
       Text(<<"num", Digits(s.workingDays)>>, colX[5], y, page),
       Text(<<"num", Digits(s.sundays)>>, colX[6], y, page) >>

Row(s, y, page) ==
    << Text(<<"name", s.name>>, colX[1], y, page),
       Text(<<"num", Digits(s.present)>>, colX[2], y, page),
       Text(<<"num", Digits(s.absent)>>, colX[3], y, page),
       Text(<<"num", Digits(s.late)>>, colX[4], y, page),
       Text(<<"num", Digits(s.workingDays)>>, colX[5], y, page),
       Text(<<"num", Digits(s.sundays)>>, colX[6], y, page) >>

\* y += 8; if (y > 280) { doc.addPage(); y = 20; }
PageFull(y) == y > PageBottom

RECURSIVE Rows(_, _, _, _)
\* stats.forEach(s => {...}) from row i on, the cursor at y on `page`
Rows(stats, i, y, page) ==
    IF i > Len(stats) THEN <<>>
    ELSE IF PageFull(y + RowStep)
    THEN Row(stats[i], y, page) \o <<[op |-> "addPage"]>>
             \o Rows(stats, i + 1, PageTop, page + 1)
    ELSE Row(stats[i], y, page) \o Rows(stats, i + 1, y + RowStep, page)

Heading(range, start, end) ==
    << Text(<<"title", "Labour Attendance Report">>, 14, 18, 1),
       Text(<<"period", start, end>>, 14, 26, 1),
       Text(<<"days", Digits(range.workingDays), Digits(range.sundays)>>,
            14, 32, 1) >>

HeaderRow == [c \in 1 .. 6 |-> Text(<<"label", Labels[c]>>, colX[c], StartY, 1)]

\* the calls on doc, or NULL when the range is invalid (alert, no document)
generatePDF(labs, z, len, start, end) ==
    LET r == computeStats(labs, z, len, start, end)
    IN  IF r = NULL THEN NULL
        ELSE [kind |-> "pdf",
              calls |-> Heading(r.dr, start, end) \o HeaderRow
                          \o Rows(r.stats, 1, StartY + RowStep, 1),
              saved |-> <<"attendance", start, "to", end>>]

-----------------------------------------------------------------------------
(* Inputs. *)

NONE == [kind |-> "none"]

Present(time) == [status |-> "Present", time |-> time]

AbsentAt(time) == [status |-> "Absent", time |-> time]

Jan3 == <<2024, 1, 3>>

Jan4 == <<2024, 1, 4>>

Jan7 == <<2024, 1, 7>>

\* the dates the date input is set to
DateInputs == {Jan3, Jan4}

\* new Date().toISOString().slice(0, 10) when the app is opened
Today == Jan3

\* texts typed into the name input
NameInputs == {<<>>, <<" ">>, <<"a">>, <<" ", "a", " ">>, <<"A">>, <<"a", " ", "b">>}

\* values of the time input; it is empty once cleared
TimeInputs == {OnTime, "10:30", ""}

\* indices handed to the handlers: the rows of the roster and one on each side
Indices(labs) == -1 .. Len(labs)

Idle ==
    /\ rStart = Garbage /\ rEnd = Garbage
    /\ dr = NONE /\ res = NONE /\ doc = NONE

-----------------------------------------------------------------------------
(* Spec: the mounted component and its handlers. *)

InitialStorage ==
    { Absent,
      JsonArray(<< Obj(Str(<<"a">>), Mapping(NoRecords)) >>),
      JsonArray(<< Obj(Str(<<"a">>), Mapping(Jan3 :> Present("10:30"))),
                   Obj(Str(<<"A">>), Missing) >>),
      JsonArray(<< Obj(Missing, Missing), Obj(Str(<<>>), Mapping(NoRecords)) >>),
      JsonArray(<< [t |-> "null"], Obj(Str(<<"a">>), Mapping(NoRecords)) >>) }

\* a call of handler op; the arguments a handler does not take are fillers
Call(op, index, d, name, time, confirmed, how) ==
    [op |-> op, index |-> index, date |-> d, name |-> name, time |-> time,
     confirmed |-> confirmed, outcome |-> how]

NoCall == Call("none", 0, Garbage, <<>>, "", FALSE, "none")

Init ==
    /\ tz = ZoneUTC /\ lenient = FALSE
    /\ storage \in InitialStorage /\ stored0 = storage
    /\ pc = "unmounted"
    /\ labours = <<>> /\ prevLabours = <<>> /\ before = <<>>
    /\ date = Today /\ newName = <<>>
    /\ last = NoCall /\ steps = 0
    /\ edited = [i \in 1 .. Len(labours) |-> {}]
    /\ Idle

\* useState(() => loadFromStorage()), then the effect saves what was loaded
Mount ==
    /\ pc = "unmounted"
    /\ pc' = "mounted"
    /\ labours' = loadFromStorage(storage)
    /\ prevLabours' = labours'
    /\ before' = labours'
    /\ storage' = saveToStorage(labours')
    /\ edited' = [i \in 1 .. Len(labours') |-> {}]
    /\ UNCHANGED <<tz, lenient, stored0, date, newName, last, rStart, rEnd,
                   dr, res, doc, steps>>

Ready == pc = "mounted" /\ steps < MaxSteps

\* a handler ended with result r: setLabours(updated) re-renders and the
\* effect of line 45 saves; without setLabours nothing is saved
Commit(r) ==
    /\ labours' = r.labours
    /\ prevLabours' = r.old
    /\ before' = labours
    /\ storage' = IF r.outcome = "ok" THEN saveToStorage(r.labours) ELSE storage
    /\ steps' = steps + 1
    /\ UNCHANGED <<tz, lenient, stored0, pc, rStart, rEnd, dr, res, doc>>

\* onChange of the date input
SetDateInput(d) ==
    /\ Ready
    /\ date' = d
    /\ UNCHANGED <<tz, lenient, storage, stored0, pc, labours, prevLabours,
                   newName, last, before, rStart, rEnd, dr, res, doc, steps, edited>>

\* the text typed into the name input (its onChange sets newName), then
\* the Add button or the Enter key
AddLabour(typed) ==
    /\ Ready
    /\ LET r == addLabour(labours, typed)
       IN  /\ r.outcome = "ok" => Len(labours) < MaxWorkers
           /\ Commit(r)
           /\ newName' = r.newName
           /\ last' = Call("addLabour", 0, date, typed, "", FALSE, r.outcome)
           /\ edited' = IF r.outcome = "ok" THEN Append(edited, {}) ELSE edited
    /\ UNCHANGED date

TogglePresent(index) ==
    /\ Ready
    /\ LET r == togglePresent(labours, date, index)
       IN  /\ Commit(r)
           /\ last' = Call("togglePresent", index, date, <<>>, "", FALSE,
                           r.outcome)
           /\ edited' = IF r.outcome = "ok"
                        THEN [edited EXCEPT ![index + 1] = @ \cup {date}]
                        ELSE edited
    /\ UNCHANGED <<date, newName>>

ChangeTime(index, newTime) ==
    /\ Ready
    /\ LET r == changeTime(labours, date, index, newTime)
       IN  /\ Commit(r)
           /\ last' = Call("changeTime", index, date, <<>>, newTime, FALSE,
                           r.outcome)
           /\ edited' = IF r.outcome = "ok"
                        THEN [edited EXCEPT ![index + 1] = @ \cup {date}]
                        ELSE edited
    /\ UNCHANGED <<date, newName>>

RemoveLabour(index, confirmed) ==
    /\ Ready
    /\ LET r == removeLabour(labours, index, confirmed)
       IN  /\ Commit(r)
           /\ last' = Call("removeLabour", index, date, <<>>, "", confirmed,
                           r.outcome)
           /\ edited' = IF r.outcome = "ok" THEN Excise(edited, index)
                        ELSE edited
    /\ UNCHANGED <<date, newName>>

Next ==
    \/ Mount
    \/ \E d \in DateInputs : SetDateInput(d)
    \/ \E n \in NameInputs : AddLabour(n)
    \/ \E i \in Indices(labours) : TogglePresent(i)
    \/ \E i \in Indices(labours), t \in TimeInputs : ChangeTime(i, t)
    \/ \E i \in Indices(labours), c \in BOOLEAN : RemoveLabour(i, c)

Spec == Init /\ [][Next]_vars

-----------------------------------------------------------------------------
(* SpecRange: dateRangeDays applied to a pair of date strings. *)

\* 2023-12-31, 2024-01-07, 2024-02-25, 2024-03-03 and 2024-04-28 are
\* Sundays; 2024 is a leap year; 2024-04-26 is the day Africa/Cairo skips
\* its midnight; 2024-02-30, 2023-02-29 and 2024-13-01 are well-formed
\* strings that name no day
RangeInputs ==
    { <<2023, 12, 30>>, <<2023, 12, 31>>, <<2024, 1, 1>>, Jan7,
      <<2024, 2, 25>>, <<2024, 2, 28>>, <<2024, 2, 29>>, <<2024, 3, 1>>,
      <<2024, 3, 3>>,
      <<2024, 4, 25>>, <<2024, 4, 26>>, <<2024, 4, 28>>,
      <<2024, 2, 30>>, <<2023, 2, 29>>, <<2024, 13, 1>>, Garbage }

\* the span of a pair of strings, read leniently
Span(start, end) ==
    LET s == ParseLocalMidnight(ZoneUTC, TRUE, start)
        e == ParseLocalMidnight(ZoneUTC, TRUE, end)
    IN  IF s = NaN \/ e = NaN THEN 0 ELSE Day(e) - Day(s)

InitRange ==
    /\ tz \in Zones /\ lenient \in BOOLEAN
    /\ storage = Absent /\ stored0 = Absent
    /\ pc = "mounted"
    /\ labours = <<>> /\ prevLabours = <<>> /\ before = <<>>
    /\ date = Today /\ newName = <<>>
    /\ last = NoCall /\ steps = 0
    /\ edited = [i \in 1 .. Len(labours) |-> {}]
    /\ rStart \in RangeInputs /\ rEnd \in RangeInputs
    /\ Span(rStart, rEnd) <= MaxSpan
    /\ dr = NONE /\ res = NONE /\ doc = NONE

CallDateRangeDays ==
    /\ dr = NONE
    /\ dr' = dateRangeDays(tz, lenient, rStart, rEnd)
    /\ UNCHANGED <<tz, lenient, storage, stored0, pc, labours, prevLabours,
                   date, newName, last, before, rStart, rEnd, res, doc, steps, edited>>

NextRange == CallDateRangeDays

SpecRange == InitRange /\ [][NextRange]_vars

-----------------------------------------------------------------------------
(* SpecStats: computeStats and generatePDF applied to a roster and a pair  *)
(* of date strings.                                                        *)

StatRangeInputs ==
    { <<2024, 1, 1>>, Jan3, Jan4, Jan7, <<2024, 2, 30>>, Garbage }

\* what a record can hold: togglePresent and changeTime give every status
\* with every value of the time input; a loaded record may lack its time
Jan3Records ==
    { Present(OnTime), Present("10:30"), Present(""), Present(UNDEFINED),
      AbsentAt("10:30") }

Jan4Records == { Present(OnTime), Present("10:30"), AbsentAt("10:30") }

Jan7Records == { Present(OnTime), AbsentAt(OnTime) }

\* the record mappings over Jan3, Jan4 (weekdays) and Jan7 (a Sunday)
StatRecords ==
    { f \in UNION { [K -> Jan3Records \cup Jan4Records \cup Jan7Records] :
                        K \in SUBSET {Jan3, Jan4, Jan7} } :
        /\ Jan3 \in DOMAIN f => f[Jan3] \in Jan3Records
        /\ Jan4 \in DOMAIN f => f[Jan4] \in Jan4Records
        /\ Jan7 \in DOMAIN f => f[Jan7] \in Jan7Records }

Worker(name, recs) == [name |-> name, records |-> recs]

StatRosters ==
    { <<Worker(<<"a">>, f)>> : f \in StatRecords }
    \cup { <<Worker(<<"a">>, f), Worker(<<"b">>, g)>> :
             f \in { NoRecords, Jan3 :> Present("10:30") },
             g \in { NoRecords, Jan3 :> AbsentAt(OnTime),
                     Jan4 :> Present(OnTime) } }

InitStats ==
    /\ tz \in Zones /\ lenient \in BOOLEAN
    /\ labours \in StatRosters
    /\ storage = saveToStorage(labours) /\ stored0 = storage
    /\ pc = "mounted"
    /\ prevLabours = labours /\ before = labours
    /\ date = Today /\ newName = <<>>
    /\ last = NoCall /\ steps = 0
    /\ edited = [i \in 1 .. Len(labours) |-> {}]
    /\ rStart \in StatRangeInputs /\ rEnd \in StatRangeInputs
    /\ Span(rStart, rEnd) <= MaxSpan
    /\ dr = NONE /\ res = NONE /\ doc = NONE

CallComputeStats ==
    /\ res = NONE
    /\ res' = computeStats(labours, tz, lenient, rStart, rEnd)
    /\ UNCHANGED <<tz, lenient, storage, stored0, pc, labours, prevLabours,
                   date, newName, last, before, rStart, rEnd, dr, doc, steps, edited>>

\* if (start && end) generatePDF(start, end)
CallGeneratePDF ==
    /\ doc = NONE
    /\ doc' = generatePDF(labours, tz, lenient, rStart, rEnd)
    /\ last' = Call("generatePDF", 0, date, <<>>, "", FALSE,
                    IF doc' = NULL THEN "alert" ELSE "saved")
    /\ UNCHANGED <<tz, lenient, storage, stored0, pc, labours, prevLabours,
                   date, newName, before, rStart, rEnd, dr, res, steps, edited>>

NextStats == CallComputeStats \/ CallGeneratePDF

SpecStats == InitStats /\ [][NextStats]_vars

-----------------------------------------------------------------------------
(* SpecReport: computeStats and generatePDF applied to rosters long enough *)
(* to fill the first page of the report.                                   *)

DigitChars == <<"0", "1", "2", "3", "4", "5", "6", "7", "8", "9">>

\* the name typed for the i-th worker: "w01", "w02", ...
RowName(i) == <<"w", DigitChars[(i \div 10) + 1], DigitChars[(i % 10) + 1]>>

\* n workers; every other one was marked Present on Jan3 and came at 10:30
ReportRoster(n) ==
    [i \in 1 .. n |->
        Worker(RowName(i),
               IF i % 2 = 1 THEN Jan3 :> Present("10:30") ELSE NoRecords)]

ReportRangeInputs == { <<2024, 1, 1>>, Jan3, Jan7, Garbage }

InitReport ==
    /\ tz \in Zones /\ lenient = FALSE
    /\ labours \in { ReportRoster(n) : n \in 0 .. MaxRows }
    /\ storage = saveToStorage(labours) /\ stored0 = storage
    /\ pc = "mounted"
    /\ prevLabours = labours /\ before = labours
    /\ date = Today /\ newName = <<>>
    /\ last = NoCall /\ steps = 0
    /\ edited = [i \in 1 .. Len(labours) |-> {}]
    /\ rStart \in ReportRangeInputs /\ rEnd \in ReportRangeInputs
    /\ Span(rStart, rEnd) <= MaxSpan
    /\ dr = NONE /\ res = NONE /\ doc = NONE

NextReport == CallComputeStats \/ CallGeneratePDF

SpecReport == InitReport /\ [][NextReport]_vars

-----------------------------------------------------------------------------
(* SpecKey: attendance is marked in the table, then the statistics of the  *)
(* selected day are computed, in each time zone.                           *)

\* the dates the date input is set to: two weekdays and a Sunday
KeyDates == DateInputs \cup {Jan7}

\* rosters just entered: no worker has a record yet
KeyRosters ==
    { <<Worker(<<"a">>, NoRecords)>>,
      <<Worker(<<"a">>, NoRecords), Worker(<<"b">>, NoRecords)>> }

InitKey ==
    /\ tz \in Zones /\ lenient = FALSE
    /\ labours \in KeyRosters
    /\ storage = saveToStorage(labours) /\ stored0 = storage
    /\ pc = "mounted"
    /\ prevLabours = labours /\ before = labours
    /\ date = Today /\ newName = <<>>
    /\ last = NoCall /\ steps = 0
    /\ edited = [i \in 1 .. Len(labours) |-> {}]
    /\ Idle

\* Generate PDF, both prompts answered with the selected date: the
\* statistics generatePDF computes at its line 102
ComputeStatsOfDay ==
    /\ Ready
    /\ res = NONE
    /\ rStart' = date /\ rEnd' = date
    /\ res' = computeStats(labours, tz, lenient, date, date)
    /\ last' = Call("computeStats", 0, date, <<>>, "", FALSE,
                    IF res' = NULL THEN "alert" ELSE "ok")
    /\ steps' = steps + 1
    /\ UNCHANGED <<tz, lenient, storage, stored0, pc, labours, prevLabours,
                   date, newName, before, dr, doc, edited>>

NextKey ==
    \/ \E d \in KeyDates : SetDateInput(d)
    \/ \E i \in Indices(labours) : TogglePresent(i)
    \/ \E i \in Indices(labours), t \in TimeInputs : ChangeTime(i, t)
    \/ ComputeStatsOfDay

SpecKey == InitKey /\ [][NextKey]_vars

-----------------------------------------------------------------------------
(* SpecLoad: the app opened on a persisted value. *)

NameValues == { Missing, Str(<<>>), Str(<<"a">>), Str(<<"A">>) }

RecordsValues ==
    { Missing, [t |-> "null"], [t |-> "scalar"], Mapping(NoRecords),
      Mapping(Jan3 :> Present("10:30")) }

Entries ==
    { [t |-> "null"], [t |-> "scalar"] }
    \cup { Obj(n, r) : n \in NameValues, r \in RecordsValues }

RawInputs ==
    { Absent, BadText, JsonOther }
    \cup { JsonArray(items) :
             items \in UNION { [1 .. n -> Entries] : n \in 0 .. MaxEntries } }

InitLoad ==
    /\ tz = ZoneUTC /\ lenient = FALSE
    /\ storage \in RawInputs /\ stored0 = storage
    /\ pc = "unmounted"
    /\ labours = <<>> /\ prevLabours = <<>> /\ before = <<>>
    /\ date = Today /\ newName = <<>>
    /\ last = NoCall /\ steps = 0
    /\ edited = [i \in 1 .. Len(labours) |-> {}]
    /\ Idle

NextLoad == Mount

SpecLoad == InitLoad /\ [][NextLoad]_vars

-----------------------------------------------------------------------------
(* The civil calendar, as the claims speak of it: dates as year, month and *)
(* day, with no time values.                                               *)

ValidDate(str) ==
    /\ str[1] \in Years /\ str[2] \in 1 .. 12
    /\ str[3] >= 1 /\ str[3] <= DaysInMonth(str[1], str[2])

DateLE(a, b) ==
    \/ a[1] < b[1]
    \/ a[1] = b[1] /\ a[2] < b[2]
    \/ a[1] = b[1] /\ a[2] = b[2] /\ a[3] <= b[3]

NextDate(a) ==
    IF a[3] < DaysInMonth(a[1], a[2]) THEN <<a[1], a[2], a[3] + 1>>
    ELSE IF a[2] < 12 THEN <<a[1], a[2] + 1, 1>>
    ELSE <<a[1] + 1, 1, 1>>

RECURSIVE DatesBetween(_, _)
\* the calendar days from a to b inclusive (a <= b, both valid)
DatesBetween(a, b) ==
    IF a = b THEN {a} ELSE {a} \cup DatesBetween(NextDate(a), b)

MonthKey == <<0, 3, 2, 5, 0, 3, 5, 1, 4, 6, 2, 4>>

\* the weekday of a civil date by the congruence on year, month and day
IsSunday(a) ==
    LET y == IF a[2] < 3 THEN a[1] - 1 ELSE a[1]
    IN  (y + (y \div 4) - (y \div 100) + (y \div 400) + MonthKey[a[2]] + a[3])
            % 7 = 0

ValidRange(start, end) ==
    ValidDate(start) /\ ValidDate(end) /\ DateLE(start, end)

-----------------------------------------------------------------------------
(* Claims about dateRangeDays and computeStats. *)

\* worker w has a record on date d and it says Present
MarkedPresent(w, d) == d \in DOMAIN w.records /\ w.records[d].status = "Present"

\* C1: for valid start <= end, dateRangeDays gives total = the number of
\* calendar days from start to end inclusive, sundays = the number of those
\* days that are Sundays, and total = sundays + workingDays.
C1_RangeCounts ==
    (dr # NONE /\ ValidRange(rStart, rEnd)) =>
        /\ dr # NULL
        /\ dr.total = Cardinality(DatesBetween(rStart, rEnd))
        /\ dr.sundays =
              Cardinality({d \in DatesBetween(rStart, rEnd) : IsSunday(d)})
        /\ dr.total = dr.sundays + dr.workingDays

\* C1, where the zone never skips a local midnight (what the code does give)
C1_RangeCountsNoSkippedMidnight == tz.dst = 0 => C1_RangeCounts

\* C2: when start > end or a string names no calendar day, dateRangeDays
\* answers invalid, computeStats returns no statistics and generatePDF
\* produces no document.
C2_InvalidRangeRejected ==
    ~ValidRange(rStart, rEnd) =>
        /\ res # NONE =>
              dateRangeDays(tz, lenient, rStart, rEnd) = NULL /\ res = NULL
        /\ doc # NONE => doc = NULL /\ last.outcome = "alert"

\* C3: over a valid range each worker's present is the number of dates of the
\* range with a Present record (Sundays included) and absent the number of
\* dates that are not Sundays and have no Present record; the week of
\* 2024-01-01 with Present 09:00 on the 3rd and Present 10:30 on the 4th
\* gives present 2, absent 4, late 1, workingDays 6, sundays 1.
C3_PresentAbsentCounts ==
    (res # NONE /\ ValidRange(rStart, rEnd)) =>
        /\ res # NULL
        /\ \A i \in 1 .. Len(labours) :
              LET days == DatesBetween(rStart, rEnd)
                  here == {d \in days : MarkedPresent(labours[i], d)}
              IN  /\ res.stats[i].present = Cardinality(here)
                  /\ res.stats[i].absent =
                        Cardinality({d \in days \ here : ~IsSunday(d)})
        /\ ( /\ rStart = <<2024, 1, 1>> /\ rEnd = Jan7
             /\ labours = <<Worker(<<"a">>, (Jan3 :> Present(OnTime))
                                              @@ (Jan4 :> Present("10:30")))>> )
           => res.stats[1] = [name |-> <<"a">>, present |-> 2, absent |-> 4,
                              late |-> 1, workingDays |-> 6, sundays |-> 1]

\* C3's week of 2024-01-01, on its own
C3_Scenario ==
    ( /\ res # NONE /\ rStart = <<2024, 1, 1>> /\ rEnd = Jan7
      /\ labours = <<Worker(<<"a">>, (Jan3 :> Present(OnTime))
                                       @@ (Jan4 :> Present("10:30")))>> )
    => /\ res # NULL
       /\ res.stats[1] = [name |-> <<"a">>, present |-> 2, absent |-> 4,
                          late |-> 1, workingDays |-> 6, sundays |-> 1]

\* C4: over a valid range each worker's late is the number of dates of the
\* range whose record is Present with a time other than 09:00, an empty or
\* missing time included.
C4_LateCounts ==
    (res # NONE /\ ValidRange(rStart, rEnd)) =>
        /\ res # NULL
        /\ \A i \in 1 .. Len(labours) :
              res.stats[i].late =
                 Cardinality({d \in DatesBetween(rStart, rEnd) :
                                 /\ MarkedPresent(labours[i], d)
                                 /\ labours[i].records[d].time # OnTime})

\* C15: over a valid range a worker with no record on any date of the range
\* has present 0, late 0 and absent = workingDays (6 over the week of
\* 2024-01-01); and when every date of the range is a Sunday, absent is 0
\* for every worker, whatever its records.
C15_NoRecordsAllAbsent ==
    (res # NONE /\ ValidRange(rStart, rEnd)) =>
        LET days == DatesBetween(rStart, rEnd)
        IN  /\ res # NULL
            /\ \A i \in 1 .. Len(labours) :
                  /\ DOMAIN labours[i].records \cap days = {} =>
                        /\ res.stats[i].present = 0
                        /\ res.stats[i].late = 0
                        /\ res.stats[i].absent = res.stats[i].workingDays
                        /\ (rStart = <<2024, 1, 1>> /\ rEnd = Jan7) =>
                              res.stats[i].absent = 6
                  /\ (\A d \in days : IsSunday(d)) => res.stats[i].absent = 0

\* C15, at UTC and west of it (what the code does give)
C15_NoRecordsAllAbsentWestOfUTC ==
    (tz.std <= 0 /\ tz.dst = 0) => C15_NoRecordsAllAbsent

\* C18: the statistics of the single day d count a worker whom
\* togglePresent marked Present on d as present 1, absent 0, and every other
\* worker as present 0 and as absent 1 unless d is a Sunday: the record
\* looked up and the weekday tested are those of d, in every time zone.
C18_DateKeysAgree ==
    (last.op = "computeStats" /\ ValidDate(rStart) /\ rEnd = rStart) =>
        /\ res # NULL
        /\ \A i \in 1 .. Len(labours) :
              IF rStart \in edited[i] /\ MarkedPresent(labours[i], rStart)
              THEN res.stats[i].present = 1 /\ res.stats[i].absent = 0
              ELSE /\ res.stats[i].present = 0
                   /\ res.stats[i].absent = IF IsSunday(rStart) THEN 0 ELSE 1

\* C18, at UTC and west of it (what the code does give)
C18_DateKeysAgreeWestOfUTC ==
    (tz.std <= 0 /\ tz.dst = 0) => C18_DateKeysAgree

-----------------------------------------------------------------------------
(* Claims about the report. *)

IsText(c) == c.op = "text"

\* the text calls of a document, in the order they were made
Texts(d) == SelectSeq(d.calls, IsText)

\* the six text calls of row i of a report: they follow the three heading
\* lines and the six labels
RowTexts(d, i) == SubSeq(Texts(d), 9 + 6 * (i - 1) + 1, 9 + 6 * i)

\* C16: the report is the title, the period line, the days line, the six
\* labels, then one row per entry of the statistics in roster order, each
\* with the worker's name, present, absent, late and the range's
\* workingDays and sundays; the labels are on the first page and nowhere
\* else.
C16_ReportLayout ==
    (res # NONE /\ res # NULL /\ doc # NONE) =>
        /\ doc # NULL
        /\ LET t == Texts(doc)
               n == Len(res.stats)
           IN  /\ Len(t) = 9 + 6 * n
               /\ n = Len(labours)
               /\ t[1].text = <<"title", "Labour Attendance Report">>
               /\ t[2].text = <<"period", rStart, rEnd>>
               /\ t[3].text = <<"days", Digits(res.dr.workingDays),
                                        Digits(res.dr.sundays)>>
               /\ \A c \in 1 .. 6 :
                     t[3 + c].text = <<"label", Labels[c]>> /\ t[3 + c].page = 1
               /\ \A k \in 10 .. Len(t) : t[k].text[1] # "label"
               /\ \A i \in 1 .. n :
                     LET r  == RowTexts(doc, i)
                         st == res.stats[i]
                     IN  /\ st.name = labours[i].name
                         /\ st.workingDays = res.dr.workingDays
                         /\ st.sundays = res.dr.sundays
                         /\ r[1].text = <<"name", st.name>>
                         /\ r[2].text = <<"num", Digits(st.present)>>
                         /\ r[3].text = <<"num", Digits(st.absent)>>
                         /\ r[4].text = <<"num", Digits(st.late)>>
                         /\ r[5].text = <<"num", Digits(st.workingDays)>>
                         /\ r[6].text = <<"num", Digits(st.sundays)>>

\* a report of more than 30 rows: its last row is on the second page, and
\* the first worker's present and absent counts differ
C16_Witness ==
    /\ res # NONE /\ res # NULL /\ doc # NONE /\ doc # NULL
    /\ Len(res.stats) > 30
    /\ RowTexts(doc, Len(res.stats))[1].page = 2
    /\ res.stats[1].present # res.stats[1].absent

\* C17: the first row is at 48 on the first page; a row follows the one
\* before it 8 lower on the same page, or, when that would be lower than
\* 280, at 20 on the next page; no row is lower than 280; a page break is
\* made only then, and is followed by a row: the report does not end with
\* an empty page.
C17_Pagination ==
    (doc # NONE /\ doc # NULL) =>
        LET c == doc.calls
            n == Len(labours)
        IN  /\ n >= 1 => RowTexts(doc, 1)[1].y = 48 /\ RowTexts(doc, 1)[1].page = 1
            /\ \A i \in 1 .. n :
                  \A k \in 1 .. 6 :
                     /\ RowTexts(doc, i)[k].y = RowTexts(doc, i)[1].y
                     /\ RowTexts(doc, i)[k].page = RowTexts(doc, i)[1].page
                     /\ RowTexts(doc, i)[k].y <= 280
            /\ \A i \in 1 .. n - 1 :
                  LET a == RowTexts(doc, i)[1]
                      b == RowTexts(doc, i + 1)[1]
                  IN  IF a.y + 8 > 280
                      THEN b.page = a.page + 1 /\ b.y = 20
                      ELSE b.page = a.page /\ b.y = a.y + 8
            /\ Cardinality({k \in 1 .. Len(c) : c[k].op = "addPage"})
                  = IF n = 0 THEN 0 ELSE RowTexts(doc, n)[1].page - 1
            /\ \A k \in 1 .. Len(c) :
                  c[k].op = "addPage" =>
                     /\ k < Len(c)
                     /\ c[k + 1].op = "text" /\ c[k + 1].y = 20

\* C17, for a report that does not end on the row that fills a page (what
\* the code does give)
C17_PaginationUnlessLastRowFillsPage ==
    (doc # NONE /\ doc # NULL /\ Len(labours) >= 1
        /\ RowTexts(doc, Len(labours))[1].y + 8 > 280)
    \/ C17_Pagination

-----------------------------------------------------------------------------
(* Claims about the roster store. *)

\* the status and time a (worker, date) pair counts as having
EffStatus(labs, index, d) ==
    IF HasRecord(At(labs, index), d) THEN At(labs, index).records[d].status
    ELSE "Absent"

EffTime(labs, index, d) ==
    IF HasRecord(At(labs, index), d) THEN At(labs, index).records[d].time
    ELSE OnTime

StoreOps == {"addLabour", "togglePresent", "changeTime", "removeLabour"}

\* the roster but for worker `index`, whose name is kept too
OthersKept(old, new, index) ==
    /\ Len(new) = Len(old)
    /\ \A j \in 1 .. Len(old) : j # index + 1 => new[j] = old[j]
    /\ At(new, index).name = At(old, index).name

\* worker `index` holds a record on d and its old records on other dates
OtherDatesKept(old, new, index, d) ==
    /\ DOMAIN At(new, index).records = DOMAIN At(old, index).records \cup {d}
    /\ \A k \in DOMAIN At(old, index).records \ {d} :
          At(new, index).records[k] = At(old, index).records[k]

\* t is s without its leading and trailing white space
IsTrimOf(t, s) ==
    \E a, b \in 0 .. Len(s) :
        /\ a + b <= Len(s)
        /\ \A k \in (1 .. a) \cup (Len(s) - b + 1 .. Len(s)) : s[k] \in WhiteSpace
        /\ t = SubSeq(s, a + 1, Len(s) - b)
        /\ t # <<>> => t[1] \notin WhiteSpace /\ t[Len(t)] \notin WhiteSpace

\* C5: a second togglePresent right after a first on the same worker and
\* date leaves the status the worker had before the first (no record
\* counting as Absent) and the time unchanged (no record counting as 09:00).
C5_ToggleTwiceRestores ==
    [][ ( /\ last.op = "togglePresent" /\ last.outcome = "ok"
          /\ steps' = steps + 1
          /\ last'.op = "togglePresent" /\ last'.outcome = "ok"
          /\ last'.index = last.index /\ last'.date = last.date )
        => /\ EffStatus(labours', last.index, last.date)
                 = EffStatus(before, last.index, last.date)
           /\ EffTime(labours', last.index, last.date)
                 = EffTime(before, last.index, last.date) ]_vars

\* two calls after opening on a worker Present at 10:30, the second a
\* togglePresent that gives back the loaded roster: the first was the same toggle
C5_Witness ==
    /\ steps = 2 /\ last.op = "togglePresent" /\ last.outcome = "ok"
    /\ labours = loadFromStorage(stored0)
    /\ before # labours
    /\ HasRecord(At(labours, last.index), last.date)
    /\ At(labours, last.index).records[last.date] = Present("10:30")

\* C6: addLabour leaves the roster as it was when the trimmed name is empty
\* or is the name of a worker of the roster, and otherwise appends one worker
\* with the trimmed name and no records.
C6_AddLabour ==
    last.op = "addLabour" =>
        \E name \in {SubSeq(last.name, a, b) :
                        a \in 1 .. Len(last.name) + 1, b \in 0 .. Len(last.name)} :
            /\ IsTrimOf(name, last.name)
            /\ IF name = <<>> \/ \E j \in 1 .. Len(before) : before[j].name = name
               THEN labours = before /\ last.outcome \in {"ignored", "alert"}
               ELSE /\ labours = Append(before, Worker(name, NoRecords))
                    /\ last.outcome = "ok"

\* a name that is taken once trimmed was typed with spaces, and rejected
C6_Witness ==
    /\ last.op = "addLabour" /\ last.outcome = "alert"
    /\ last.name = <<" ", "a", " ">>
    /\ Len(labours) = 2

\* C7: after a store operation the roster that was current before the call
\* still has the content it had before the call.
C7_OldSnapshotKept ==
    last.op \in StoreOps => prevLabours = before

\* C9: every worker name is a non-empty string and no two workers of the
\* roster have the same name.
C9_NamesUnique ==
    pc = "mounted" =>
        /\ \A i \in 1 .. Len(labours) : labours[i].name # <<>>
        /\ \A i, j \in 1 .. Len(labours) :
              i # j => labours[i].name # labours[j].name

\* C10: togglePresent on a valid index gives a missing record Present at
\* 09:00 and flips the status of an existing one, its time kept; the other
\* workers, the name, the order and the other dates' records are unchanged.
C10_TogglePresent ==
    (last.op = "togglePresent" /\ ValidIndex(before, last.index)) =>
        LET i == last.index
            d == last.date
        IN  /\ last.outcome = "ok"
            /\ OthersKept(before, labours, i)
            /\ OtherDatesKept(before, labours, i, d)
            /\ IF HasRecord(At(before, i), d)
               THEN /\ At(labours, i).records[d].status # EffStatus(before, i, d)
                    /\ At(labours, i).records[d].status \in {"Present", "Absent"}
                    /\ At(labours, i).records[d].time = EffTime(before, i, d)
               ELSE At(labours, i).records[d] = Present(OnTime)

\* a worker of a roster of two, with a record on another date, was toggled
\* on a date where its record said Absent at 10:30
C10_Witness ==
    /\ last.op = "togglePresent" /\ last.outcome = "ok"
    /\ Len(before) = 2
    /\ HasRecord(At(before, last.index), last.date)
    /\ EffStatus(before, last.index, last.date) = "Absent"
    /\ EffTime(before, last.index, last.date) = "10:30"
    /\ DOMAIN At(before, last.index).records = {Jan3, Jan4}

\* C11: changeTime on a valid index gives a missing record the status Absent
\* and the given time, and changes only the time of an existing one; the
\* other workers, the name, the order and the other dates' records are
\* unchanged.
C11_ChangeTime ==
    (last.op = "changeTime" /\ ValidIndex(before, last.index)) =>
        LET i == last.index
            d == last.date
        IN  /\ last.outcome = "ok"
            /\ OthersKept(before, labours, i)
            /\ OtherDatesKept(before, labours, i, d)
            /\ IF HasRecord(At(before, i), d)
               THEN /\ At(labours, i).records[d].status = EffStatus(before, i, d)
                    /\ At(labours, i).records[d].time = last.time
               ELSE At(labours, i).records[d] = AbsentAt(last.time)

\* the time of a worker Present at 10:30, one of a roster of two, was set to
\* another value
C11_Witness ==
    /\ last.op = "changeTime" /\ last.outcome = "ok"
    /\ Len(before) = 2
    /\ HasRecord(At(before, last.index), last.date)
    /\ At(before, last.index).records[last.date] = Present("10:30")
    /\ last.time # "10:30"
    /\ At(labours, last.index).records[last.date] = Present(last.time)

\* C12: removeLabour, togglePresent and changeTime called with an index
\* outside 0 .. length - 1 fail with an error and leave the roster as it
\* was, in length and in content.
C12_BadIndexFails ==
    ( /\ last.op \in {"removeLabour", "togglePresent", "changeTime"}
      /\ ~ValidIndex(before, last.index) )
    => /\ last.outcome = "threw"
       /\ labours = before

\* removeLabour was called with index -1 on a roster of two, one of them
\* with a record
C12_Witness ==
    /\ last.op = "removeLabour" /\ last.index = 0 - 1 /\ last.confirmed
    /\ last.outcome = "threw"
    /\ Len(labours) = 2
    /\ \E j \in 1 .. 2 : labours[j].records # NoRecords

C14_RecordsAreLazy ==
    /\ (pc = "mounted" /\ loadFromStorage(stored0) = <<>>) =>
          /\ Len(edited) = Len(labours)
          /\ \A i \in 1 .. Len(labours) :
                DOMAIN labours[i].records = edited[i]
    /\ (last.op = "addLabour" /\ last.outcome = "ok") =>
          labours[Len(labours)].records = NoRecords

\* from an empty roster: a worker was added and toggled twice on the same
\* date; the record is there and says Absent
C14_Witness ==
    /\ loadFromStorage(stored0) = <<>>
    /\ steps = 3 /\ last.op = "togglePresent" /\ last.outcome = "ok"
    /\ Len(labours) = 1
    /\ edited[1] = {last.date}
    /\ HasRecord(labours[1], last.date)
    /\ labours[1].records[last.date].status = "Absent"



\* an entry that is an object with a non-empty string for its name
HasName(e) == e.t = "object" /\ e.name.t = "str" /\ e.name.s # <<>>

\* an entry that is an object with a mapping for its records
HasRecords(e) == e.t = "object" /\ e.records.t = "map"

\* C8: a persisted sequence of entries loads as one worker per entry, in
\* order: a well-formed entry with its name and records, a missing or
\* malformed one with the name 'Unnamed' and/or no records.
C8_LoadTolerant ==
    (pc = "mounted" /\ stored0.kind = "json" /\ stored0.value.t = "array") =>
        LET items == stored0.value.items
        IN  /\ Len(labours) = Len(items)
            /\ \A i \in 1 .. Len(items) :
                  /\ labours[i].name =
                        IF HasName(items[i]) THEN items[i].name.s ELSE Unnamed
                  /\ labours[i].records =
                        IF HasRecords(items[i]) THEN items[i].records.m
                        ELSE NoRecords

\* C8, for a sequence that holds no null entry (what the code does give)
C8_LoadTolerantNoNull ==
    ( /\ stored0.kind = "json" /\ stored0.value.t = "array"
      /\ \E i \in 1 .. Len(stored0.value.items) :
            stored0.value.items[i].t = "null" )
    \/ C8_LoadTolerant

\* C9 as amended: every worker name is non-empty, and when the roster that
\* was loaded had no two workers of the same name, no roster reached from it
\* has.
C9_NamesUniqueOnceLoadedSo ==
    LET l == loadFromStorage(stored0)
    IN  pc = "mounted" =>
          /\ \A i \in 1 .. Len(labours) : labours[i].name # <<>>
          /\ (\A i, j \in 1 .. Len(l) : i # j => l[i].name # l[j].name)
                => \A i, j \in 1 .. Len(labours) :
                      i # j => labours[i].name # labours[j].name

\* "A" was added to a loaded roster that held "a": names differing in case
\* are two names
C9_Witness ==
    /\ last.op = "addLabour" /\ last.outcome = "ok"
    /\ Len(loadFromStorage(stored0)) = 1
    /\ Len(labours) = 2
    /\ labours[1].name = <<"a">> /\ labours[2].name = <<"A">>

-----------------------------------------------------------------------------
(* Claims about persistence. *)

\* the workers a persisted array names are in the roster the persisted
\* value now loads as, with the records they were persisted with
PersistedWorkersKept ==
    (stored0.kind = "json" /\ stored0.value.t = "array") =>
        LET items == stored0.value.items
            l     == loadFromStorage(storage)
        IN  \A k \in 1 .. Len(items) :
               HasName(items[k]) =>
                  \E j \in 1 .. Len(l) :
                     /\ l[j].name = items[k].name.s
                     /\ HasRecords(items[k]) => l[j].records = items[k].records.m

\* C19: once the app is open the persisted value loads as the current
\* roster, after the initial load and after every accepted operation; a
\* rejected operation leaves the persisted value as it was; and the save
\* made right after the initial load keeps the workers that were persisted.
C19_Persistence ==
    /\ [](pc = "mounted" =>
            /\ loadFromStorage(storage) = labours
            /\ steps = 0 => PersistedWorkersKept)
    /\ [][(steps' = steps + 1 /\ last'.outcome # "ok") => storage' = storage]_vars

\* C19, the initial save looked at only when the app is opened on a value
\* without a null entry (what the code does give)
C19_PersistenceNoNull ==
    /\ [](pc = "mounted" =>
            /\ loadFromStorage(storage) = labours
            /\ ( /\ steps = 0
                 /\ ~ ( /\ stored0.kind = "json" /\ stored0.value.t = "array"
                        /\ \E i \in 1 .. Len(stored0.value.items) :
                              stored0.value.items[i].t = "null" ) )
               => PersistedWorkersKept)
    /\ [][(steps' = steps + 1 /\ last'.outcome # "ok") => storage' = storage]_vars

=============================================================================
